---- MODULE Spec2Model ----
(***************************************************************************)
(* Model of the e-book generator: the pipeline orchestrator                *)
(* (BookBuilder.build_book and the stage methods it calls) and the         *)
(* document assembler (BookFormatter.create_all_formats and the format     *)
(* writers it calls).  The completion service, the file system and the     *)
(* external converter are the environment: their answers are chosen        *)
(* nondeterministically from small sets.                                   *)
(***************************************************************************)
EXTENDS Integers, Sequences, FiniteSets, TLC

\* ---------------------------------------------------------------- bounds
\* longest outline (number of Chapter Stubs) the completion service returns
MaxStubs == 3
\* largest chapter_number the completion service writes into a stub
MaxChapterNumber == 3
\* longest response text of the completion service, in characters
MaxLen == 5
\* most calls of AirtableLogger methods in one run
MaxLogCalls == 2
\* longest list of candidate selectors the publisher walks for one field
MaxSelectors == 3
\* longest list of success (error) text indicators the publisher looks for
MaxIndicators == 2

\* ------------------------------------------------------- values and inputs
Null == "None"

Truthy(v) == v \notin {Null, ""}

SUPPORTED_GENRES == {"Paranormal Romance", "Cozy Mystery"}

\* command-line overrides handed to build_book
GenreArgs == {Null} \cup SUPPORTED_GENRES
TitleArgs == {Null, "Custom Title"}

\* what one call of the completion service can do
Outcomes == {"ok", "api_error", "no_content", "malformed"}
TextOutcomes == {"ok", "api_error", "no_content"}

\* concept records the completion service can answer with
Concepts ==
  [niche : SUPPORTED_GENRES, subgenre : {"sg"}, hook : {"hook"},
   concept_summary : {"concept summary"}, word_count : {17000},
   chapter_count : 1..MaxStubs]

NoConcept ==
  [niche |-> Null, subgenre |-> Null, hook |-> Null,
   concept_summary |-> Null, word_count |-> 0, chapter_count |-> 0]

Title(b) == [kind |-> "title", id |-> b]
Summary(b) == [kind |-> "summary", id |-> b]
Text(n) == [kind |-> "text", id |-> n]

\* the stub at list position i, numbered n by the completion service
Stub(i, n) ==
  [chapter_number |-> n, chapter_title |-> Title(i), summary |-> Summary(i)]

\* outline records the completion service can answer with: nothing in the
\* outline stage checks the stubs' count or numbering
Outlines ==
  UNION { { [title |-> "Generated Title",
             chapters |-> [i \in 1..k |-> Stub(i, nums[i])]] :
              nums \in [1..k -> 1..MaxChapterNumber] } : k \in 0..MaxStubs }

NoOutline == [title |-> Null, chapters |-> << >>]

NoResult ==
  [returned |-> FALSE, success |-> FALSE, error |-> Null, book_title |-> Null,
   genre |-> Null, word_count |-> 0]

NoBookData ==
  [title |-> Null, genre |-> Null, subgenre |-> Null, word_count |-> 0,
   synopsis |-> Null, cover_path |-> Null, back_cover_blurb |-> Null,
   chapters |-> << >>]

VARIABLES
  entry,              \* which entry point the caller runs
  pc,                 \* position inside the running entry point
  genre_arg,          \* build_book(genre=...)
  title_arg,          \* build_book(title=...)
  concept,            \* build_book's local concept
  outline,            \* build_book's local outline
  chapters,           \* generate_chapters' list of chapter texts
  previous_chapters,  \* generate_chapters' rolling context
  idx,                \* position of generate_chapters' for loop (1-based)
  back_cover_blurb,   \* build_book's local blurb
  requests,           \* completion requests sent so far, in order
  stages,             \* stage methods build_book has entered, in order
  raised,             \* exception raised by the latest stage call, Null if none
  result,             \* what build_book returned
  escaped,            \* an exception left the entry point
  book_data,          \* Book Record built by format_book_data
  env,                \* file system / converter behaviour during assembly
  files,              \* paths written during create_all_formats
  fresult,            \* create_all_formats' result map
  attempted,          \* format steps entered so far, in order
  pdf_pages,          \* pages of the PDF written by create_pdf
  mobi_call,          \* what create_mobi was given and what it returned
  gen,                \* one call of an AIGenerator stage and how it ended
  cov,                \* one call of add_text_to_cover and how it ended
  airtable,           \* the AirtableLogger: its table, the calls made on it
  drive,              \* one call of upload_to_google_drive and how it ended
  pub,                \* one call of publish_to_streetlib and how it ended
  sub                 \* one call of submit_for_publishing and how it ended

vars ==
  << entry, pc, genre_arg, title_arg, concept, outline, chapters,
     previous_chapters, idx, back_cover_blurb, requests, stages, raised,
     result, escaped, book_data, env, files, fresult, attempted, pdf_pages,
     mobi_call, gen, cov, airtable, drive, pub, sub >>

buildVars ==
  << genre_arg, title_arg, concept, outline, chapters, previous_chapters, idx,
     back_cover_blurb, requests, stages, raised, result, book_data >>

formatVars == << env, files, fresult, attempted, pdf_pages, mobi_call >>

\* state of the stages and adapters called on their own
extVars == << gen, cov, airtable, drive, pub, sub >>

\* ------------------------------------------------------------ assembler env
CoverStates ==
  {"nokey", "none", "empty", "missing", "unreadable", "corrupt", "ok"}
ConverterStates == {"absent", "works", "nonzero", "oserror"}

Envs ==
  [makedirsOk : BOOLEAN, cover : CoverStates, epubBuildOk : BOOLEAN,
   bodyOk : BOOLEAN, pdfWriteOk : BOOLEAN, converter : ConverterStates]

NoEnv ==
  [makedirsOk |-> TRUE, cover |-> "ok", epubBuildOk |-> TRUE, bodyOk |-> TRUE,
   pdfWriteOk |-> TRUE, converter |-> "works"]

epub_path == "books/Title/Title.epub"
pdf_path == "books/Title/Title.pdf"
mobi_path == "books/Title/Title.mobi"

EmptyFormats == [epub |-> "", pdf |-> "", mobi |-> ""]

NoMobiCall ==
  [called |-> FALSE, epub_path |-> "", raised |-> FALSE, ret |-> "",
   ran |-> FALSE, returncode |-> -1]

\* ------------------------------------------------- completion responses
\* characters of a response text: the two braces, a JSON scalar or member
\* ("k"), a character of prose ("p") and white space
Chars == {"{", "}", "k", "p", " "}

Contents == UNION { [1..n -> Chars] : n \in 0..MaxLen }

\* what chat.completions.create can do: raise, answer without content, or
\* answer with a text
ApiAnswers ==
  {[kind |-> "error", content |-> << >>], [kind |-> "none", content |-> << >>]}
    \cup { [kind |-> "text", content |-> c] : c \in Contents }

JsonStages == {"concept", "outline", "metadata"}
TextStages == {"chapter", "blurb", "cover_prompt"}

Gens ==
  [stage : JsonStages \cup TextStages, api : ApiAnswers, status : {"pending"},
   error : {Null}, value : {<< >>}]

NoGen ==
  [stage |-> "concept", api |-> [kind |-> "error", content |-> << >>],
   status |-> "pending", error |-> Null, value |-> << >>]

\* ------------------------------------------------------- cover compositor
raw_cover_path == "covers/cover.png"
final_cover_path == "covers/final_cover.png"

\* what add_text_to_cover is given and finds: the image at cover_path
\* ("none": cover_path is None), the title, whether arial.ttf can be loaded,
\* and whether the image can be saved at output_path
CoverArgs ==
  [image : {"none", "missing", "corrupt", "ok"},
   title : {Null, "", "  ", "Title"},
   font : {"truetype", "default"},
   saveOk : BOOLEAN]

NoCoverOutcome == [raised |-> FALSE, ret |-> Null, saved |-> FALSE]

\* arg, called, out: the call of add_text_to_cover; written, ret, raised:
\* the files BookBuilder.generate_cover_image wrote, the path it returned,
\* whether it raised
Covers ==
  [arg : CoverArgs, called : {FALSE}, out : {NoCoverOutcome}, written : {{}},
   ret : {Null}, raised : {FALSE}]

\* the cover stage composes the image it has just downloaded: the file is
\* there, an image or not
StageCovers == { c \in Covers : c.arg.image \in {"corrupt", "ok"} }

NoCover ==
  [arg |-> [image |-> "ok", title |-> "Title", font |-> "truetype",
            saveOk |-> TRUE],
   called |-> FALSE, out |-> NoCoverOutcome, written |-> {}, ret |-> Null,
   raised |-> FALSE]

\* --------------------------------------------------------- tracking table
\* what _initialize finds: no API key, no base id, a Table constructor that
\* raises, or a working configuration
AirtableConfigs == {"no_key", "no_base", "init_error", "connected"}

AirtableMethods ==
  {"log_book_creation", "log_cover_generation", "log_file_creation",
   "log_google_drive_upload", "log_streetlib_publishing", "log_error",
   "get_book_records", "update_book_status"}

\* an _initialize that builds the table without a base id
InitializeAnyBase(config) == config \in {"connected", "no_base"}

\* AirtableLogger._initialize: whether self.table is set afterwards
Initialize(config) == config = "connected"

\* the logger before __init__ has run
Airtables ==
  [config : AirtableConfigs, table : {FALSE}, calls : {<< >>}, log : {<< >>}]

\* the logger of a BookBuilder whose tracking table is configured
ConfiguredAirtable ==
  [config |-> "connected", table |-> TRUE, calls |-> << >>, log |-> << >>]

\* ------------------------------------------------------------ cloud upload
\* the keys of book_files, in the order create_all_formats inserted them
FormatKeys == << "epub", "pdf", "mobi" >>

\* a local path of book_files or the cover: the empty string, a path where
\* no file is, a path where a file is; the cover path can also be None
PathStates == {"", "missing", "exists"}
CoverPathStates == {Null} \cup PathStates

\* what _authenticate finds: credentials that work, no credentials file (it
\* returns without a service), or an exception
AuthStates == {"ok", "no_credentials", "raises"}

Drives ==
  [auth : AuthStates, paths : [{"epub", "pdf", "mobi"} -> PathStates],
   cover : CoverPathStates, service : {FALSE}, i : {1}, calls : {<< >>},
   files : {{}}, raised : {Null}, ret : {"pending"}]

NoDrive ==
  [auth |-> "ok", paths |-> [k \in {"epub", "pdf", "mobi"} |-> "exists"],
   cover |-> "exists", service |-> FALSE, i |-> 1, calls |-> << >>,
   files |-> {}, raised |-> Null, ret |-> "pending"]

\* ------------------------------------------------------ publishing session
\* the resources __enter__ opens, in the order it opens them
Resources == << "playwright", "browser", "page" >>

\* a book file handed to publish_book: no file at its path (or no such key),
\* a file whose upload goes through, a file whose upload fails
FileStates == {"absent", "uploads", "fails"}

\* started: how many resources __enter__ gets open before one fails to
\* start, all three when none fails; files: the EPUB and the PDF of
\* book_files; steps: the steps publish_book has run, with their results;
\* tried: the files handed to upload_book_file
Pubs ==
  [started : 0..Len(Resources), files : [{"epub", "pdf"} -> FileStates],
   open : {{}}, steps : {<< >>}, tried : {<< >>}, book : {"pending"},
   book_error : {Null}, ret : {"pending"}, error : {Null}]

NoPub ==
  [started |-> Len(Resources), files |-> [k \in {"epub", "pdf"} |-> "uploads"],
   open |-> {}, steps |-> << >>, tried |-> << >>, book |-> "pending",
   book_error |-> Null, ret |-> "pending", error |-> Null]

\* ------------------------------------------------------------ the form page
\* one candidate selector against the page: it matches nothing (or probing
\* it raises), it matches and takes the action, or it matches and the action
\* on it raises
SelStates == {"absent", "present", "broken"}

\* one success-text indicator: on the page or not
SuccessStates == {"absent", "found"}

\* one error-text indicator: not on the page, on it with a text that can be
\* read, or on it while text_content raises
ErrorStates == {"absent", "found", "unreadable"}

\* the page submit_for_publishing works on: the submit-button selectors, the
\* success indicators after the click, the error indicators after the click
Pages ==
  [buttons : [1..MaxSelectors -> SelStates],
   success : [1..MaxIndicators -> SuccessStates],
   errors : [1..MaxIndicators -> ErrorStates]]

NoSubmitResult ==
  [returned |-> FALSE, clicked |-> FALSE, success |-> FALSE, message |-> Null,
   error |-> Null]

NoSelectorLoop == [probed |-> << >>, acted |-> << >>, done |-> FALSE]

Subs == [page : Pages, loop : {NoSelectorLoop}, out : {NoSubmitResult}]

NoSub ==
  [page |-> [buttons |-> [k \in 1..MaxSelectors |-> "present"],
             success |-> [k \in 1..MaxIndicators |-> "found"],
             errors |-> [k \in 1..MaxIndicators |-> "absent"]],
   loop |-> NoSelectorLoop, out |-> NoSubmitResult]

\* ---------------------------------------------------------------- Init
Init ==
  /\ entry \in {"build_book", "create_all_formats", "generation_stage",
                "add_text_to_cover", "airtable_logger",
                "upload_to_google_drive", "publish_to_streetlib",
                "submit_for_publishing", "generate_cover_image"}
  /\ pc = "start"
  /\ genre_arg \in (IF entry = "build_book" THEN GenreArgs ELSE {Null})
  /\ title_arg \in (IF entry = "build_book" THEN TitleArgs ELSE {Null})
  /\ concept = NoConcept
  /\ outline = NoOutline
  /\ chapters = << >>
  /\ previous_chapters = << >>
  /\ idx = 0
  /\ back_cover_blurb = Null
  /\ requests = << >>
  /\ stages = << >>
  /\ raised = Null
  /\ result = NoResult
  /\ escaped = FALSE
  /\ book_data = NoBookData
  /\ env \in (IF entry = "create_all_formats" THEN Envs ELSE {NoEnv})
  /\ files = {}
  /\ fresult = EmptyFormats
  /\ attempted = << >>
  /\ pdf_pages = << >>
  /\ mobi_call = NoMobiCall
  /\ gen \in (IF entry = "generation_stage" THEN Gens ELSE {NoGen})
  /\ cov \in (IF entry = "add_text_to_cover" THEN Covers
              ELSE IF entry = "generate_cover_image" THEN StageCovers
              ELSE {NoCover})
  /\ airtable \in (IF entry = "airtable_logger" THEN Airtables
                   ELSE {ConfiguredAirtable})
  /\ drive \in (IF entry = "upload_to_google_drive" THEN Drives ELSE {NoDrive})
  /\ pub \in (IF entry = "publish_to_streetlib" THEN Pubs ELSE {NoPub})
  /\ sub \in (IF entry = "submit_for_publishing" THEN Subs ELSE {NoSub})

\* ------------------------------------------------------------ build_book
\* one request to the completion service, reduced to the fields the prompt
\* template interpolates
Request(stage, number, title, summary, context) ==
  [stage |-> stage, chapter_number |-> number, chapter_title |-> title,
   chapter_summary |-> summary, previous_context |-> context]

\* build_book's except clause: the failure result
FailureResult(e) ==
  [returned |-> TRUE, success |-> FALSE, error |-> e, book_title |-> Null,
   genre |-> Null, word_count |-> 0]

\* a stage raised: the stage method logs and re-raises, build_book's except
\* clause turns the exception into the failure result
Abort(e) ==
  /\ result' = FailureResult(e)
  /\ pc' = "done"

\* AIGenerator.generate_chapter: the lines of previous_context, one
\* "Chapter {i+1}: {summary}" line per element; the empty string for no element
PreviousContext(prev) ==
  IF prev = << >> THEN << >>
  ELSE [i \in 1..Len(prev) |-> [label |-> i, summary |-> prev[i]]]

\* a loop that threads the chapter's full text instead of its summary
NextPreviousChaptersText(prev, chapter_data, chapter_content) ==
  Append(prev, chapter_content)

\* generate_chapters, line 122: what the loop adds to the rolling context
NextPreviousChapters(prev, chapter_data, chapter_content) ==
  Append(prev, chapter_data.summary)

\* generate_chapters, line 121
NextChapters(chs, chapter_content) == Append(chs, chapter_content)

\* a generate_chapters that logs the exception of one chapter and goes on with
\* the next stub
ChapterRaisedSwallowed(e) ==
  /\ idx' = idx + 1
  /\ UNCHANGED << pc, result, chapters, previous_chapters >>

\* generate_chapters, lines 158-160, and build_book, lines 410-418: a chapter
\* request raised; the loop is left and the run ends with the failure result
ChapterRaised(e) ==
  /\ Abort(e)
  /\ UNCHANGED << chapters, previous_chapters, idx >>

StartBuildBook ==
  /\ entry = "build_book"
  /\ pc = "start"
  /\ pc' = "concept"
  /\ UNCHANGED << entry, buildVars, escaped, formatVars, extVars >>

GenerateBookConcept ==
  /\ entry = "build_book"
  /\ pc = "concept"
  /\ stages' = Append(stages, "Concept")
  /\ requests' = Append(requests, Request("concept", 0, Null, Null, << >>))
  /\ \E o \in Outcomes :
       /\ raised' = (IF o = "ok" THEN Null ELSE o)
       /\ IF o = "ok"
          THEN /\ \E c \in Concepts : concept' = c
               /\ pc' = "override_genre"
               /\ UNCHANGED result
          ELSE /\ Abort(o)
               /\ UNCHANGED concept
  /\ UNCHANGED << entry, genre_arg, title_arg, outline, chapters,
                  previous_chapters, idx, back_cover_blurb, escaped, book_data,
                  formatVars, extVars >>

OverrideGenre ==
  /\ entry = "build_book"
  /\ pc = "override_genre"
  /\ concept' = IF Truthy(genre_arg) THEN [concept EXCEPT !.niche = genre_arg]
                ELSE concept
  /\ pc' = "outline"
  /\ UNCHANGED << entry, genre_arg, title_arg, outline, chapters,
                  previous_chapters, idx, back_cover_blurb, requests, stages,
                  result, escaped, book_data, formatVars, extVars, raised >>

GenerateTitleAndOutline ==
  /\ entry = "build_book"
  /\ pc = "outline"
  /\ stages' = Append(stages, "Outline")
  /\ requests' = Append(requests, Request("outline", 0, Null, Null, << >>))
  /\ \E o \in Outcomes :
       /\ raised' = (IF o = "ok" THEN Null ELSE o)
       /\ IF o = "ok"
          THEN /\ \E ol \in Outlines : outline' = ol
               /\ pc' = "override_title"
               /\ UNCHANGED result
          ELSE /\ Abort(o)
               /\ UNCHANGED outline
  /\ UNCHANGED << entry, genre_arg, title_arg, concept, chapters,
                  previous_chapters, idx, back_cover_blurb, escaped, book_data,
                  formatVars, extVars >>

OverrideTitle ==
  /\ entry = "build_book"
  /\ pc = "override_title"
  /\ outline' = IF Truthy(title_arg) THEN [outline EXCEPT !.title = title_arg]
                ELSE outline
  /\ pc' = "chapters"
  /\ UNCHANGED << entry, genre_arg, title_arg, concept, chapters,
                  previous_chapters, idx, back_cover_blurb, requests, stages,
                  result, escaped, book_data, formatVars, extVars, raised >>

\* generate_chapters, lines 98-103
BeginChapters ==
  /\ entry = "build_book"
  /\ pc = "chapters"
  /\ stages' = Append(stages, "Chapters")
  /\ chapters' = << >>
  /\ previous_chapters' = << >>
  /\ idx' = 1
  /\ pc' = "chapter_loop"
  /\ UNCHANGED << entry, genre_arg, title_arg, concept, outline,
                  back_cover_blurb, requests, result, escaped, book_data,
                  formatVars, extVars, raised >>

\* generate_chapters, lines 105-125: one iteration of the loop
GenerateChapter ==
  /\ entry = "build_book"
  /\ pc = "chapter_loop"
  /\ idx <= Len(outline.chapters)
  /\ LET chapter_data == outline.chapters[idx]
     IN /\ requests' =
             Append(requests,
                    Request("chapter", chapter_data.chapter_number,
                            chapter_data.chapter_title, chapter_data.summary,
                            PreviousContext(previous_chapters)))
        /\ \E o \in TextOutcomes :
             /\ raised' = (IF o = "ok" THEN Null ELSE o)
             /\ IF o = "ok"
                THEN LET chapter_content == Text(Len(requests) + 1)
                     IN /\ chapters' = NextChapters(chapters, chapter_content)
                        /\ previous_chapters' =
                             NextPreviousChapters(previous_chapters,
                                                  chapter_data, chapter_content)
                        /\ idx' = idx + 1
                        /\ UNCHANGED << pc, result >>
                ELSE ChapterRaised(o)
  /\ UNCHANGED << entry, genre_arg, title_arg, concept, outline,
                  back_cover_blurb, stages, escaped, book_data, formatVars, extVars >>

\* generate_chapters, lines 127-156: the full-content dump, then return
FinishChapters ==
  /\ entry = "build_book"
  /\ pc = "chapter_loop"
  /\ idx > Len(outline.chapters)
  /\ \E writeOk \in BOOLEAN :
       /\ raised' = (IF writeOk THEN Null ELSE "io_error")
       /\ IF writeOk
          THEN /\ pc' = "blurb"
               /\ UNCHANGED result
          ELSE Abort("io_error")
  /\ UNCHANGED << entry, genre_arg, title_arg, concept, outline, chapters,
                  previous_chapters, idx, back_cover_blurb, requests, stages,
                  escaped, book_data, formatVars, extVars >>

GenerateBackCoverBlurb ==
  /\ entry = "build_book"
  /\ pc = "blurb"
  /\ stages' = Append(stages, "Blurb")
  /\ requests' = Append(requests, Request("blurb", 0, Null, Null, << >>))
  /\ \E o \in TextOutcomes :
       /\ raised' = (IF o = "ok" THEN Null ELSE o)
       /\ IF o = "ok"
          THEN /\ back_cover_blurb' = Text(Len(requests) + 1)
               /\ pc' = "result"
               /\ UNCHANGED result
          ELSE /\ Abort(o)
               /\ UNCHANGED back_cover_blurb
  /\ UNCHANGED << entry, genre_arg, title_arg, concept, outline, chapters,
                  previous_chapters, idx, escaped, book_data, formatVars, extVars >>

\* build_book, lines 387-408
ReturnSuccess ==
  /\ entry = "build_book"
  /\ pc = "result"
  /\ result' = [returned |-> TRUE, success |-> TRUE, error |-> Null,
                book_title |-> outline.title, genre |-> concept.niche,
                word_count |-> concept.word_count]
  /\ pc' = "done"
  /\ UNCHANGED << entry, genre_arg, title_arg, concept, outline, chapters,
                  previous_chapters, idx, back_cover_blurb, requests, stages,
                  escaped, book_data, formatVars, extVars, raised >>

\* ------------------------------------------------------ format_book_files
cover_path == "covers/final_cover.png"

\* a format_book_data that takes the titles from the wrong end of the outline
FormatBookDataReversed(c, ol, chs, blurb, cover) ==
  [title |-> ol.title, genre |-> c.niche, subgenre |-> c.subgenre,
   word_count |-> c.word_count, synopsis |-> c.concept_summary,
   cover_path |-> cover, back_cover_blurb |-> blurb,
   chapters |-> [i \in 1..Len(chs) |->
                   [chapter_number |-> i,
                    chapter_title |->
                      ol.chapters[Len(chs) + 1 - i].chapter_title,
                    content |-> chs[i]]]]

\* BookFormatter.format_book_data
FormatBookData(c, ol, chs, blurb, cover) ==
  [title |-> ol.title, genre |-> c.niche, subgenre |-> c.subgenre,
   word_count |-> c.word_count, synopsis |-> c.concept_summary,
   cover_path |-> cover, back_cover_blurb |-> blurb,
   chapters |-> [i \in 1..Len(chs) |->
                   [chapter_number |-> i,
                    chapter_title |-> ol.chapters[i].chapter_title,
                    content |-> chs[i]]]]

\* BookBuilder.format_book_files called with the outputs of a finished run:
\* the Book Record is built, then create_all_formats is called with two
\* arguments although it takes three, the TypeError is logged and re-raised
FormatBookFiles ==
  /\ entry = "build_book"
  /\ pc = "done"
  /\ result.success
  /\ book_data' = FormatBookData(concept, outline, chapters, back_cover_blurb,
                                 cover_path)
  /\ escaped' = TRUE
  /\ pc' = "format_raised"
  /\ UNCHANGED << entry, genre_arg, title_arg, concept, outline, chapters,
                  previous_chapters, idx, back_cover_blurb, requests, stages,
                  result, formatVars, extVars, raised >>

\* ------------------------------------------------------ create_all_formats
Outcome(exc, ret, wrote) == [raised |-> exc, ret |-> ret, wrote |-> wrote]

\* open(book_data['cover_path'], "rb") succeeds
CoverOpens(e) == e.cover \in {"corrupt", "ok"}

\* a create_epub that re-raises its exception, as create_pdf does
CreateEpubRaises(e, output_path) ==
  IF CoverOpens(e) /\ e.epubBuildOk THEN Outcome(FALSE, output_path, TRUE)
  ELSE Outcome(TRUE, "", FALSE)

\* BookFormatter.create_epub: every exception is caught and output_path is
\* returned all the same
CreateEpub(e, output_path) ==
  Outcome(FALSE, output_path, CoverOpens(e) /\ e.epubBuildOk)

\* create_pdf STEP 2: the cover page is the image, the placeholder panel, or
\* an exception
CoverPage(e) ==
  CASE e.cover \in {"nokey", "empty", "missing"} -> "placeholder"
    [] e.cover = "ok" -> "cover"
    [] OTHER -> "raise"

BodyPages == << "title", "toc", "chapters", "blurb" >>

\* BookFormatter.create_pdf: one try block around the three steps, the
\* exception is logged and re-raised
CreatePdfOk(e) == e.bodyOk /\ CoverPage(e) # "raise" /\ e.pdfWriteOk

CreatePdfPages(e) ==
  IF CreatePdfOk(e) THEN << CoverPage(e) >> \o BodyPages ELSE << >>

CreatePdf(e, output_path) ==
  IF CreatePdfOk(e) THEN Outcome(FALSE, output_path, TRUE)
  ELSE Outcome(TRUE, "", FALSE)

\* subprocess.run started ebook-convert and waited for it
ConverterRan(e) == e.converter \in {"works", "nonzero"}

\* exit status of ebook-convert when it can be started
ReturnCode(e, fs, epub) == IF e.converter = "works" /\ epub \in fs THEN 0 ELSE 1

\* a create_mobi without the FileNotFoundError handler
CreateMobiNoFallback(e, fs, epub, output_path) ==
  CASE e.converter = "absent" -> Outcome(TRUE, "", FALSE)
    [] e.converter = "oserror" -> Outcome(FALSE, epub, FALSE)
    [] OTHER -> IF ReturnCode(e, fs, epub) = 0
                THEN Outcome(FALSE, output_path, TRUE)
                ELSE Outcome(FALSE, epub, FALSE)

\* BookFormatter.create_mobi
CreateMobi(e, fs, epub, output_path) ==
  CASE e.converter = "absent" -> Outcome(FALSE, epub, FALSE)
    [] e.converter = "oserror" -> Outcome(FALSE, epub, FALSE)
    [] OTHER -> IF ReturnCode(e, fs, epub) = 0
                THEN Outcome(FALSE, output_path, TRUE)
                ELSE Outcome(FALSE, epub, FALSE)

\* result[key] = self.create_x(...) inside try/except Exception
Store(res, key, r) == IF r.raised THEN res ELSE [res EXCEPT ![key] = r.ret]

Written(fs, path, r) == IF r.wrote THEN fs \cup {path} ELSE fs

\* create_all_formats, lines 533-537
SetupFormats ==
  /\ entry = "create_all_formats"
  /\ pc = "start"
  /\ IF env.makedirsOk
     THEN /\ fresult' = EmptyFormats
          /\ pc' = "epub"
          /\ UNCHANGED escaped
     ELSE /\ escaped' = TRUE
          /\ pc' = "raised"
          /\ UNCHANGED fresult
  /\ UNCHANGED << entry, buildVars, extVars, env, files, attempted, pdf_pages, mobi_call >>

\* create_all_formats, lines 539-544
EpubStep ==
  /\ entry = "create_all_formats"
  /\ pc = "epub"
  /\ attempted' = Append(attempted, "epub")
  /\ LET r == CreateEpub(env, epub_path)
     IN /\ fresult' = Store(fresult, "epub", r)
        /\ files' = Written(files, epub_path, r)
  /\ pc' = "pdf"
  /\ UNCHANGED << entry, buildVars, extVars, escaped, env, pdf_pages, mobi_call >>

\* create_all_formats, lines 546-551
PdfStep ==
  /\ entry = "create_all_formats"
  /\ pc = "pdf"
  /\ attempted' = Append(attempted, "pdf")
  /\ LET r == CreatePdf(env, pdf_path)
     IN /\ fresult' = Store(fresult, "pdf", r)
        /\ files' = Written(files, pdf_path, r)
  /\ pdf_pages' = CreatePdfPages(env)
  /\ pc' = "mobi"
  /\ UNCHANGED << entry, buildVars, extVars, escaped, env, mobi_call >>

\* create_all_formats, lines 553-563
MobiStep ==
  /\ entry = "create_all_formats"
  /\ pc = "mobi"
  /\ IF Truthy(fresult.epub)
     THEN LET r == CreateMobi(env, files, fresult.epub, mobi_path)
          IN /\ attempted' = Append(attempted, "mobi")
             /\ fresult' = Store(fresult, "mobi", r)
             /\ files' = Written(files, mobi_path, r)
             /\ mobi_call' =
                  [called |-> TRUE, epub_path |-> fresult.epub,
                   raised |-> r.raised, ret |-> r.ret,
                   ran |-> ConverterRan(env),
                   returncode |-> IF ConverterRan(env)
                                  THEN ReturnCode(env, files, fresult.epub)
                                  ELSE -1]
     ELSE UNCHANGED << attempted, fresult, files, mobi_call >>
  /\ pc' = "done"
  /\ UNCHANGED << entry, buildVars, extVars, escaped, env, pdf_pages >>

\* ------------------------------------------------------------ specification
\* -------------------------------------------------- AIGenerator stages
Min(S) == CHOOSE x \in S : \A y \in S : x <= y
Max(S) == CHOOSE x \in S : \A y \in S : x >= y

Positions(s, c) == { i \in 1..Len(s) : s[i] = c }

\* str.find and str.rfind: 0-based position of the first (last) occurrence,
\* -1 when there is none
Find(s, c) == IF Positions(s, c) = {} THEN -1 ELSE Min(Positions(s, c)) - 1
RFind(s, c) == IF Positions(s, c) = {} THEN -1 ELSE Max(Positions(s, c)) - 1

\* how a slice bound is read against a text of n characters: a negative
\* bound counts from the end, and both ends are clamped
SliceIndex(n, a) ==
  IF a < 0 THEN (IF a + n < 0 THEN 0 ELSE a + n)
  ELSE (IF a > n THEN n ELSE a)

\* s[a:b]
Slice(s, a, b) ==
  LET lo == SliceIndex(Len(s), a)
      hi == SliceIndex(Len(s), b)
  IN IF lo < hi THEN SubSeq(s, lo + 1, hi) ELSE << >>

\* str.strip
Strip(s) ==
  LET ink == { i \in 1..Len(s) : s[i] # " " }
  IN IF ink = {} THEN << >> ELSE SubSeq(s, Min(ink), Max(ink))

\* the tokens of a JSON text: white space between tokens is insignificant
Tokens(s) == SelectSeq(s, LAMBDA c : c # " ")

Depth(t, i) ==
  Cardinality({ j \in 1..i : t[j] = "{" })
    - Cardinality({ j \in 1..i : t[j] = "}" })

\* t is one JSON object: it opens with a brace that is closed by its last
\* token and by no earlier one, and holds members and objects only
IsObject(t) ==
  /\ Len(t) >= 2
  /\ t[1] = "{"
  /\ \A i \in 1..Len(t) : t[i] # "p"
  /\ \A i \in 1..(Len(t) - 1) : Depth(t, i) >= 1
  /\ Depth(t, Len(t)) = 0

\* a parser that reads the empty text as the empty object
JsonLoadsLenient(s) ==
  IF Tokens(s) = << >> \/ Tokens(s) = << "k" >> \/ IsObject(Tokens(s))
  THEN [ok |-> TRUE, value |-> Tokens(s)]
  ELSE [ok |-> FALSE, value |-> << >>]

\* json.loads: the value of a JSON text (a scalar or an object), or a
\* JSONDecodeError
JsonLoads(s) ==
  IF Tokens(s) = << "k" >> \/ IsObject(Tokens(s))
  THEN [ok |-> TRUE, value |-> Tokens(s)]
  ELSE [ok |-> FALSE, value |-> << >>]

Returned(g, v) == [g EXCEPT !.status = "returned", !.value = v]
Raised(g, e) == [g EXCEPT !.status = "raised", !.error = e]

\* what the stage does with the parsed value before it returns it: the
\* concept and outline stages log required keys of it by subscript, the
\* metadata stage reads them with .get
LogValue(g, required, v) ==
  IF ~IsObject(v) THEN Raised(g, IF required THEN "TypeError"
                                 ELSE "AttributeError")
  ELSE IF required /\ Positions(v, "k") = {} THEN Raised(g, "KeyError")
  ELSE Returned(g, v)

\* a JSON stage that cuts the text before the last closing brace
JsonStageShort(g, required) ==
  IF g.api.kind = "error" THEN Raised(g, "APIError")
  ELSE IF g.api.kind = "none" THEN Raised(g, "AttributeError")
  ELSE LET content == g.api.content
           start_idx == Find(content, "{")
           end_idx == RFind(content, "}")
           json_str == Slice(content, start_idx, end_idx)
       IN IF ~JsonLoads(json_str).ok THEN Raised(g, "JSONDecodeError")
          ELSE LogValue(g, required, JsonLoads(json_str).value)

\* generate_book_concept, generate_title_and_outline and generate_metadata:
\* the request, the extraction of the JSON text, its parse; every exception
\* is logged and re-raised
JsonStage(g, required) ==
  IF g.api.kind = "error" THEN Raised(g, "APIError")
  ELSE IF g.api.kind = "none" THEN Raised(g, "AttributeError")
  ELSE LET content == g.api.content
           start_idx == Find(content, "{")
           end_idx == RFind(content, "}") + 1
           json_str == Slice(content, start_idx, end_idx)
       IN IF ~JsonLoads(json_str).ok THEN Raised(g, "JSONDecodeError")
          ELSE LogValue(g, required, JsonLoads(json_str).value)

\* generate_chapter, generate_back_cover_blurb and
\* generate_cover_image_prompt: the request, then the stripped text
TextStage(g) ==
  IF g.api.kind = "error" THEN Raised(g, "APIError")
  ELSE IF g.api.kind = "none" THEN Raised(g, "AttributeError")
  ELSE Returned(g, Strip(g.api.content))

\* one call of an AIGenerator stage
GenerationStage ==
  /\ entry = "generation_stage"
  /\ pc = "start"
  /\ gen' = (IF gen.stage \in JsonStages
             THEN JsonStage(gen, gen.stage # "metadata")
             ELSE TextStage(gen))
  /\ pc' = "done"
  /\ UNCHANGED << entry, buildVars, escaped, formatVars, cov, airtable, drive, pub, sub >>

\* ------------------------------------------------------ add_text_to_cover
\* the cover_path argument
CoverPath(a) == IF a.image = "none" THEN Null ELSE raw_cover_path

\* wrap_text, lines 427-446: the lines of the title; a title without a word
\* has none
WrapText(title) == IF title \in {"", "  "} THEN << >> ELSE << title >>

\* the first statement of the try block that raises, Null if none does:
\* Image.open (405), the fonts fall back to load_default (415-422),
\* text.split of wrap_text (428), the colours that only the loop over the
\* title lines assigns (465-466, used 486), cover.save (492)
ComposeError(a) ==
  IF a.image = "none" THEN "AttributeError"
  ELSE IF a.image = "missing" THEN "FileNotFoundError"
  ELSE IF a.image = "corrupt" THEN "UnidentifiedImageError"
  ELSE IF a.title = Null THEN "AttributeError"
  ELSE IF WrapText(a.title) = << >> THEN "UnboundLocalError"
  ELSE IF ~a.saveOk THEN "OSError"
  ELSE Null

\* an add_text_to_cover without its except clause
AddTextToCoverUnguarded(a) ==
  IF ComposeError(a) = Null
  THEN [raised |-> FALSE, ret |-> final_cover_path, saved |-> TRUE]
  ELSE [raised |-> TRUE, ret |-> Null, saved |-> FALSE]

\* BookFormatter.add_text_to_cover: the composed image is saved at
\* output_path and output_path returned; any exception is logged and
\* cover_path returned
AddTextToCover(a) ==
  IF ComposeError(a) = Null
  THEN [raised |-> FALSE, ret |-> final_cover_path, saved |-> TRUE]
  ELSE [raised |-> FALSE, ret |-> CoverPath(a), saved |-> FALSE]

\* one call of add_text_to_cover
ComposeCover ==
  /\ entry = "add_text_to_cover"
  /\ pc = "start"
  /\ cov' = [cov EXCEPT !.called = TRUE, !.out = AddTextToCover(cov.arg)]
  /\ escaped' = AddTextToCover(cov.arg).raised
  /\ pc' = "done"
  /\ UNCHANGED << entry, buildVars, formatVars, gen, airtable, drive, pub, sub >>

\* --------------------------------------------------------- AirtableLogger
\* the call a method makes on the table
TableOp(m) ==
  IF m = "log_book_creation" THEN "create"
  ELSE IF m = "get_book_records" THEN "all"
  ELSE "update"

\* what a method returns when it has no table or its table call raised
NoOp(m) ==
  IF m = "log_book_creation" THEN "None"
  ELSE IF m = "get_book_records" THEN "[]"
  ELSE "False"

\* what a method returns when its table call went through
Logged(m) ==
  IF m = "log_book_creation" THEN "rec1"
  ELSE IF m = "get_book_records" THEN "records"
  ELSE "True"

\* one logging or query method: without a table it returns at once, with
\* one it makes its table call, and an exception of that call is logged
LogMethod(a, m, ok) ==
  IF ~a.table
  THEN [a EXCEPT !.log = Append(@, [method |-> m, ret |-> NoOp(m),
                                    raised |-> FALSE])]
  ELSE [a EXCEPT !.calls = Append(@, TableOp(m)),
                 !.log = Append(@, [method |-> m,
                                    ret |-> IF ok THEN Logged(m) ELSE NoOp(m),
                                    raised |-> FALSE])]

\* AirtableLogger(): __init__ runs _initialize
NewAirtableLogger ==
  /\ entry = "airtable_logger"
  /\ pc = "start"
  /\ airtable' = [airtable EXCEPT !.table = Initialize(airtable.config)]
  /\ pc' = "ready"
  /\ UNCHANGED << entry, buildVars, escaped, formatVars, gen, cov, drive, pub, sub >>

\* a caller invokes one of the logger's methods; ok: the table call, if one
\* is made, goes through
CallAirtableLogger ==
  /\ entry = "airtable_logger"
  /\ pc = "ready"
  /\ Len(airtable.log) < MaxLogCalls
  /\ \E m \in AirtableMethods, ok \in BOOLEAN :
       airtable' = LogMethod(airtable, m, ok)
  /\ UNCHANGED << entry, pc, buildVars, escaped, formatVars, gen, cov, drive, pub, sub >>

\* ------------------------------------------------- upload_to_google_drive
\* an upload_to_google_drive that lets the exception go on to its caller
UploadRaisedEscapes(e) ==
  /\ drive' = [drive EXCEPT !.raised = e]
  /\ escaped' = TRUE
  /\ pc' = "done"

\* upload_to_google_drive's except clause, src/test.py lines 308-310: the
\* exception is logged and None returned
UploadRaised(e) ==
  /\ drive' = [drive EXCEPT !.raised = e, !.ret = "None"]
  /\ escaped' = escaped
  /\ pc' = "done"

\* a loop that hands every named path to upload_file
ShouldUploadNamed(path) == path # ""

\* upload_book_files, line 161: os.path.exists(file_path)
ShouldUpload(path) == path = "exists"

\* upload_file: FileNotFoundError for a path without a file, else the
\* request to the service, whose exception is re-raised
UploadFile(path, ok) ==
  IF path # "exists" THEN "FileNotFoundError"
  ELSE IF ok THEN Null ELSE "HttpError"

DriveCall(op, key) == [op |-> op, key |-> key]

\* lines 293-294: GoogleDriveUploader() runs _authenticate
NewGoogleDriveUploader ==
  /\ entry = "upload_to_google_drive"
  /\ pc = "start"
  /\ IF drive.auth = "raises"
     THEN UploadRaised("AuthError")
     ELSE /\ drive' = [drive EXCEPT !.service = (drive.auth = "ok")]
          /\ pc' = "folder"
          /\ UNCHANGED escaped
  /\ UNCHANGED << entry, buildVars, formatVars, gen, cov, airtable, pub, sub >>

\* upload_book_files, lines 149-151: create_folder; without a service the
\* call fails before any request is made
CreateFolder ==
  /\ entry = "upload_to_google_drive"
  /\ pc = "folder"
  /\ IF ~drive.service
     THEN UploadRaised("AttributeError")
     ELSE \E ok \in BOOLEAN :
            IF ok
            THEN /\ drive' = [drive EXCEPT
                               !.calls = Append(@, DriveCall("folder", ""))]
                 /\ pc' = "files"
                 /\ UNCHANGED escaped
            ELSE UploadRaised("HttpError")
  /\ UNCHANGED << entry, buildVars, formatVars, gen, cov, airtable, pub, sub >>

\* upload_book_files, lines 159-165: one turn of the loop over book_files
UploadBookFile ==
  /\ entry = "upload_to_google_drive"
  /\ pc = "files"
  /\ LET key == FormatKeys[drive.i]
         path == drive.paths[key]
         next == IF drive.i = Len(FormatKeys) THEN "cover" ELSE "files"
     IN IF ShouldUpload(path)
        THEN \E ok \in BOOLEAN :
               IF UploadFile(path, ok) = Null
               THEN /\ drive' = [drive EXCEPT
                                  !.calls = Append(@, DriveCall("upload", key)),
                                  !.files = @ \cup {key},
                                  !.i = @ + 1]
                    /\ pc' = next
                    /\ UNCHANGED escaped
               ELSE UploadRaised(UploadFile(path, ok))
        ELSE /\ drive' = [drive EXCEPT !.i = @ + 1]
             /\ pc' = next
             /\ UNCHANGED escaped
  /\ UNCHANGED << entry, buildVars, formatVars, gen, cov, airtable, pub, sub >>

\* upload_book_files, lines 167-170: the cover
UploadCover ==
  /\ entry = "upload_to_google_drive"
  /\ pc = "cover"
  /\ IF Truthy(drive.cover) /\ ShouldUpload(drive.cover)
     THEN \E ok \in BOOLEAN :
            IF UploadFile(drive.cover, ok) = Null
            THEN /\ drive' = [drive EXCEPT
                               !.calls = Append(@, DriveCall("upload", "cover")),
                               !.files = @ \cup {"cover"}]
                 /\ pc' = "public"
                 /\ UNCHANGED escaped
            ELSE UploadRaised(UploadFile(drive.cover, ok))
     ELSE /\ pc' = "public"
          /\ UNCHANGED << drive, escaped >>
  /\ UNCHANGED << entry, buildVars, formatVars, gen, cov, airtable, pub, sub >>

\* upload_book_files, lines 172-182, and upload_to_google_drive, lines
\* 302-306: the permission request, whose exception is only logged, then the
\* upload info is returned
MakePublic ==
  /\ entry = "upload_to_google_drive"
  /\ pc = "public"
  /\ drive' = [drive EXCEPT !.calls = Append(@, DriveCall("permission", "")),
                            !.ret = "upload_info"]
  /\ pc' = "done"
  /\ UNCHANGED << entry, buildVars, escaped, formatVars, gen, cov, airtable,
                  pub, sub >>

\* --------------------------------------------------- publish_to_streetlib
\* publish_to_streetlib's except clause, src/test.py lines 349-351
PublishRaised(p, e) == [p EXCEPT !.ret = "failure", !.error = e]

\* what publish_book can do: return a success result or a failure result;
\* its own except clause turns every exception into a failure result
BookOutcomes == {"published", "failed"}

\* what publish_to_streetlib returns after the with block: publish_book's
\* result, unless __exit__ raised
PublishResult(p, book, closed) ==
  IF closed < Len(Resources) THEN PublishRaised(p, "CloseError")
  ELSE [p EXCEPT !.ret = IF book = "published" THEN "success" ELSE "failure"]

\* StreetLibPublisher.__enter__, called by the with statement: it opens the
\* resources one after the other; when one fails to start the exception
\* leaves the with statement without __exit__ being called
EnterPublisher ==
  /\ entry = "publish_to_streetlib"
  /\ pc = "start"
  /\ LET opened == { Resources[k] : k \in 1..pub.started }
     IN IF pub.started < Len(Resources)
        THEN /\ pub' = PublishRaised([pub EXCEPT !.open = opened],
                                     "StartError")
             /\ pc' = "done"
        ELSE /\ pub' = [pub EXCEPT !.open = opened]
             /\ pc' = "publish"
  /\ UNCHANGED << entry, buildVars, escaped, formatVars, gen, cov, airtable,
                  drive, sub >>

\* StreetLibPublisher.__exit__: page.close, browser.close, playwright.stop;
\* closed of them go through before one raises (all three when none does);
\* then publish_to_streetlib returns
ExitPublisher ==
  /\ entry = "publish_to_streetlib"
  /\ pc = "exit"
  /\ \E closed \in 0..Len(Resources) :
       pub' = PublishResult(
                [pub EXCEPT !.open = @ \ { Resources[Len(Resources) + 1 - k] :
                                             k \in 1..closed }],
                pub.book, closed)
  /\ pc' = "done"
  /\ UNCHANGED << entry, buildVars, escaped, formatVars, gen, cov, airtable,
                  drive, sub >>

\* --------------------------------------------------- submit_for_publishing
\* a loop that goes on to the next selector after an action that succeeded
RECURSIVE SelectorLoopNoBreak(_, _)
SelectorLoopNoBreak(sels, k) ==
  IF k > Len(sels) THEN NoSelectorLoop
  ELSE LET rest == SelectorLoopNoBreak(sels, k + 1)
       IN IF sels[k] = "absent"
          THEN [rest EXCEPT !.probed = << k >> \o @]
          ELSE [probed |-> << k >> \o rest.probed,
                acted |-> << k >> \o rest.acted,
                done |-> rest.done \/ sels[k] = "present"]

\* the loop the publisher runs over a list of candidate selectors, from the
\* k-th on: probe the selector, apply the action when it matches and leave
\* the loop; an exception of the probe or of the action moves on to the next
\* selector.  probed and acted: the selectors probed and acted upon, in
\* order; done: an action went through
RECURSIVE SelectorLoop(_, _)
SelectorLoop(sels, k) ==
  IF k > Len(sels) THEN NoSelectorLoop
  ELSE IF sels[k] = "present"
  THEN [probed |-> << k >>, acted |-> << k >>, done |-> TRUE]
  ELSE LET rest == SelectorLoop(sels, k + 1)
       IN IF sels[k] = "absent"
          THEN [rest EXCEPT !.probed = << k >> \o @]
          ELSE [probed |-> << k >> \o rest.probed,
                acted |-> << k >> \o rest.acted,
                done |-> rest.done]

\* lines 394-433: some success indicator is on the page
SuccessFound(page) == \E k \in DOMAIN page.success : page.success[k] = "found"

\* lines 436-454: some error indicator is on the page and its text is read
ErrorRead(page) == \E k \in DOMAIN page.errors : page.errors[k] = "found"

\* submit_for_publishing: click the first submit button that takes the
\* click, then decide by the indicators: a success indicator, else an error
\* indicator whose text can be read, else the unclear success
SubmitForPublishing(page) ==
  LET clicked == SelectorLoop(page.buttons, 1).done
  IN IF SuccessFound(page)
     THEN [returned |-> TRUE, clicked |-> clicked, success |-> TRUE,
           message |-> "Book published successfully", error |-> Null]
     ELSE IF ErrorRead(page)
     THEN [returned |-> TRUE, clicked |-> clicked, success |-> FALSE,
           message |-> Null, error |-> "error text"]
     ELSE [returned |-> TRUE, clicked |-> clicked, success |-> TRUE,
           message |-> "Book submitted (status unclear)", error |-> Null]

\* lines 375-392: the loop over the submit-button selectors
ClickSubmit ==
  /\ entry = "submit_for_publishing"
  /\ pc = "start"
  /\ sub' = [sub EXCEPT !.loop = SelectorLoop(sub.page.buttons, 1)]
  /\ pc' = "indicators"
  /\ UNCHANGED << entry, buildVars, escaped, formatVars, gen, cov, airtable,
                  drive, pub >>

\* lines 394-465: the indicators are looked for and the result returned
CheckIndicators ==
  /\ entry = "submit_for_publishing"
  /\ pc = "indicators"
  /\ sub' = [sub EXCEPT !.out = SubmitForPublishing(sub.page)]
  /\ pc' = "done"
  /\ UNCHANGED << entry, buildVars, escaped, formatVars, gen, cov, airtable,
                  drive, pub >>

\* ----------------------------------------------------------- publish_book
\* the steps of publish_book, in the order it runs them
Steps ==
  << "login", "navigate", "basic_metadata", "description_keywords",
     "categories", "cover", "book_file", "pricing", "submit" >>

\* the error of the failure result publish_book returns when a step failed
FailureMessage(step) ==
  CASE step = "login" -> "Login failed"
    [] step = "navigate" -> "Could not navigate to publishing"
    [] step = "basic_metadata" -> "Failed to fill basic metadata"
    [] step = "description_keywords"
         -> "Failed to fill description and keywords"
    [] step = "categories" -> "Failed to select categories"
    [] step = "cover" -> "Failed to upload cover"
    [] step = "book_file" -> "Failed to upload book file"
    [] step = "pricing" -> "Failed to set pricing"
    [] OTHER -> "error text"

NextStep == Steps[Len(pub.steps) + 1]

\* a publish_book that goes on whatever a step returned
AfterStepIgnored(p, step, ok) ==
  [p EXCEPT !.steps = Append(@, [name |-> step, ok |-> ok])]

\* publish_book after a step before the submission: a failed step ends the
\* run with the failure result of that step
AfterStep(p, step, ok) ==
  IF ok THEN [p EXCEPT !.steps = Append(@, [name |-> step, ok |-> ok])]
  ELSE [p EXCEPT !.steps = Append(@, [name |-> step, ok |-> ok]),
                 !.book = "failed", !.book_error = FailureMessage(step)]

\* lines 516-523: the files handed to upload_book_file: the EPUB when it
\* exists, else the PDF when it exists
FilesTried(book_files) ==
  IF book_files.epub # "absent" THEN << "epub" >>
  ELSE IF book_files.pdf # "absent" THEN << "pdf" >>
  ELSE << >>

\* lines 516-523: book_uploaded
BookUploaded(book_files) ==
  \E i \in DOMAIN FilesTried(book_files) :
    book_files[FilesTried(book_files)[i]] = "uploads"

\* where publish_to_streetlib goes on after a step of publish_book
PcAfter(p) ==
  IF p.book # "pending" \/ Len(p.steps) = Len(Steps) THEN "exit" ELSE "publish"

\* a step of publish_book other than the book-file upload and the
\* submission: the step method returns True, or False (its own except
\* clause included)
PublishStep ==
  /\ entry = "publish_to_streetlib"
  /\ pc = "publish"
  /\ NextStep \notin {"book_file", "submit"}
  /\ \E ok \in BOOLEAN : pub' = AfterStep(pub, NextStep, ok)
  /\ pc' = PcAfter(pub')
  /\ UNCHANGED << entry, buildVars, escaped, formatVars, gen, cov, airtable,
                  drive, sub >>

\* lines 516-526: the book-file step
UploadBookStep ==
  /\ entry = "publish_to_streetlib"
  /\ pc = "publish"
  /\ NextStep = "book_file"
  /\ pub' = AfterStep([pub EXCEPT !.tried = FilesTried(pub.files)],
                      "book_file", BookUploaded(pub.files))
  /\ pc' = PcAfter(pub')
  /\ UNCHANGED << entry, buildVars, escaped, formatVars, gen, cov, airtable,
                  drive, sub >>

\* lines 535-541: submit_for_publishing on the page as it is then; its
\* result is publish_book's
SubmitStep ==
  /\ entry = "publish_to_streetlib"
  /\ pc = "publish"
  /\ NextStep = "submit"
  /\ \E page \in Pages :
       LET r == SubmitForPublishing(page)
       IN pub' = [pub EXCEPT
                    !.steps = Append(@, [name |-> "submit", ok |-> r.success]),
                    !.book = IF r.success THEN "published" ELSE "failed",
                    !.book_error = r.error]
  /\ pc' = "exit"
  /\ UNCHANGED << entry, buildVars, escaped, formatVars, gen, cov, airtable,
                  drive, sub >>

\* ---------------------------------------- BookBuilder.generate_cover_image
\* generate_cover_image's except clause, src/test.py lines 232-234: the
\* exception is logged and re-raised
CoverStageRaised ==
  /\ cov' = [cov EXCEPT !.raised = TRUE]
  /\ escaped' = TRUE
  /\ pc' = "done"

\* line 229: the path generate_cover_image returns after add_text_to_cover
\* returned out
ReturnedCoverPath(out) == final_cover_path

\* lines 191-194: the cover prompt is requested
GenerateCoverPrompt ==
  /\ entry = "generate_cover_image"
  /\ pc = "start"
  /\ \E ok \in BOOLEAN :
       IF ok THEN pc' = "cover_image" /\ UNCHANGED << cov, escaped >>
       ELSE CoverStageRaised
  /\ UNCHANGED << entry, buildVars, formatVars, gen, airtable, drive, pub, sub >>

\* lines 197-200: the file name is derived from the title, then
\* AIGenerator.generate_cover_image requests the image, downloads it and
\* writes it at cover_path
DownloadCover ==
  /\ entry = "generate_cover_image"
  /\ pc = "cover_image"
  /\ \E ok \in BOOLEAN :
       IF ok /\ cov.arg.title # Null
       THEN /\ cov' = [cov EXCEPT !.written = @ \cup {raw_cover_path}]
            /\ pc' = "compose"
            /\ UNCHANGED escaped
       ELSE CoverStageRaised
  /\ UNCHANGED << entry, buildVars, formatVars, gen, airtable, drive, pub, sub >>

\* lines 203-209: add_text_to_cover is called and what it returns is dropped
ComposeFinalCover ==
  /\ entry = "generate_cover_image"
  /\ pc = "compose"
  /\ LET out == AddTextToCover(cov.arg)
     IN cov' = [cov EXCEPT !.called = TRUE, !.out = out,
                           !.written = IF out.saved
                                       THEN @ \cup {final_cover_path} ELSE @]
  /\ pc' = "details"
  /\ UNCHANGED << entry, buildVars, escaped, formatVars, gen, airtable, drive,
                  pub, sub >>

\* lines 215-229: the book details file is written and the path returned
SaveBookDetails ==
  /\ entry = "generate_cover_image"
  /\ pc = "details"
  /\ \E ok \in BOOLEAN :
       IF ok
       THEN /\ cov' = [cov EXCEPT !.ret = ReturnedCoverPath(cov.out)]
            /\ pc' = "done"
            /\ UNCHANGED escaped
       ELSE CoverStageRaised
  /\ UNCHANGED << entry, buildVars, formatVars, gen, airtable, drive, pub, sub >>

Next ==
  \/ StartBuildBook
  \/ GenerateBookConcept
  \/ OverrideGenre
  \/ GenerateTitleAndOutline
  \/ OverrideTitle
  \/ BeginChapters
  \/ GenerateChapter
  \/ FinishChapters
  \/ GenerateBackCoverBlurb
  \/ ReturnSuccess
  \/ FormatBookFiles
  \/ SetupFormats
  \/ EpubStep
  \/ PdfStep
  \/ MobiStep
  \/ GenerationStage
  \/ ComposeCover
  \/ NewAirtableLogger
  \/ CallAirtableLogger
  \/ NewGoogleDriveUploader
  \/ CreateFolder
  \/ UploadBookFile
  \/ UploadCover
  \/ MakePublic
  \/ EnterPublisher
  \/ PublishStep
  \/ UploadBookStep
  \/ SubmitStep
  \/ ExitPublisher
  \/ ClickSubmit
  \/ CheckIndicators
  \/ GenerateCoverPrompt
  \/ DownloadCover
  \/ ComposeFinalCover
  \/ SaveBookDetails

Spec == Init /\ [][Next]_vars

\* ------------------------------------------------------------ properties
ChapterRequests == { k \in DOMAIN requests : requests[k].stage = "chapter" }

\* position of request k among the chapter requests
Ordinal(k) == Cardinality({ j \in ChapterRequests : j <= k })

BuildSucceeded == entry = "build_book" /\ result.returned /\ result.success

FormatsReturned == entry = "create_all_formats" /\ pc = "done"

Formats == {"epub", "pdf", "mobi"}

PathOf(k) ==
  CASE k = "epub" -> epub_path
    [] k = "pdf" -> pdf_path
    [] OTHER -> mobi_path

AllStages ==
  << "Concept", "Outline", "Chapters", "Blurb", "Cover Prompt", "Cover Image",
     "Cover Composition", "Assembly" >>

\* C1: a build_book run that reports success has entered the stages Concept,
\* Outline, Chapters, Blurb, Cover Prompt, Cover Image, Cover Composition and
\* Assembly, each once and in that order, with one chapter request per stub.
C1_SuccessAfterAssembly ==
  BuildSucceeded =>
    /\ stages = AllStages
    /\ Cardinality(ChapterRequests) = Len(outline.chapters)

\* C2: when a required stage raises, build_book has returned the failure
\* result (success = FALSE) without letting the exception out, and from then on
\* no request is sent and no stage is entered.
C2_AbortOnRaise ==
  [][ /\ raised' # Null =>
           /\ pc' = "done"
           /\ result'.returned
           /\ ~result'.success
           /\ ~escaped'
      /\ raised # Null =>
           /\ requests' = requests
           /\ stages' = stages
           /\ result' = result ]_vars

\* a chapter request raised while stubs were still waiting
C2_Witness ==
  /\ raised # Null
  /\ pc = "done"
  /\ requests[Len(requests)].stage = "chapter"
  /\ idx < Len(outline.chapters)
  /\ ~result.success

C4_BookRecordPairing ==
  book_data # NoBookData =>
    /\ Len(book_data.chapters) = Len(outline.chapters)
    /\ \A i \in DOMAIN book_data.chapters :
         /\ book_data.chapters[i].chapter_title =
              outline.chapters[i].chapter_title
         /\ \E k \in ChapterRequests :
              /\ Ordinal(k) = i
              /\ book_data.chapters[i].content = Text(k)

\* a Book Record of at least two chapters with different titles
C4_Witness ==
  /\ book_data # NoBookData
  /\ Len(book_data.chapters) >= 2
  /\ book_data.chapters[1].chapter_title # book_data.chapters[2].chapter_title

\* C5: the chapter requests are issued in strictly increasing chapter-number
\* order, and a finished generate_chapters has issued one per stub.
C5_IncreasingChapterNumbers ==
  /\ \A j, k \in ChapterRequests :
       j < k => requests[j].chapter_number < requests[k].chapter_number
  /\ (entry = "build_book" /\ pc \in {"blurb", "result"}) =>
       Cardinality(ChapterRequests) = Len(outline.chapters)

C7_FailedFormatsEmpty ==
  FormatsReturned =>
    \A k \in Formats :
      fresult[k] # "" => (fresult[k] = PathOf(k) /\ PathOf(k) \in files)

\* C8: with the converter absent (and EPUB and PDF produced),
\* create_all_formats returns the EPUB and PDF paths and "" for MOBI.
C8_AbsentConverter ==
  (FormatsReturned /\ env.converter = "absent" /\ epub_path \in files
     /\ pdf_path \in files) =>
    /\ fresult.epub = epub_path
    /\ fresult.pdf = pdf_path
    /\ fresult.mobi = ""

\* C9: create_mobi never raises; it returns the MOBI path exactly when the
\* converter ran and exited with 0, and the EPUB path it was given otherwise.
C9_MobiFallback ==
  mobi_call.called =>
    /\ ~mobi_call.raised
    /\ IF mobi_call.ran /\ mobi_call.returncode = 0
       THEN mobi_call.ret = mobi_path
       ELSE mobi_call.ret = mobi_call.epub_path

\* the converter could not be started and the EPUB path came back
C9_Witness ==
  /\ mobi_call.called
  /\ env.converter = "absent"
  /\ mobi_call.ret = epub_path

\* C10: when the cover page cannot be rendered and the body pages can,
\* create_pdf still writes the output PDF with the body pages.
C10_CoverFailureKeepsBody ==
  (entry = "create_all_formats" /\ pc \in {"mobi", "done"}
     /\ CoverPage(env) = "raise" /\ env.bodyOk /\ env.pdfWriteOk) =>
    /\ pdf_path \in files
    /\ Len(pdf_pages) >= Len(BodyPages)
    /\ SubSeq(pdf_pages, Len(pdf_pages) - Len(BodyPages) + 1, Len(pdf_pages))
         = BodyPages

\* the generation stage called on its own has ended
StageEnded(S) ==
  entry = "generation_stage" /\ gen.stage \in S /\ gen.status # "pending"

\* the response text has a first "{" that does not come after its last "}"
HasBraces(content) ==
  /\ Positions(content, "{") # {}
  /\ Positions(content, "}") # {}
  /\ Min(Positions(content, "{")) <= Max(Positions(content, "}"))

\* the response text from its first "{" to its last "}", both included
FirstToLast(content) ==
  SubSeq(content, Min(Positions(content, "{")), Max(Positions(content, "}")))

C13_NoBracesIsParseError ==
  (StageEnded(JsonStages) /\ gen.api.kind = "text"
     /\ ~HasBraces(gen.api.content))
    => gen.status = "raised" /\ gen.error = "JSONDecodeError"

\* the outline stage failed on a text that closes a brace it never opened
C13_Witness ==
  /\ StageEnded({"outline"})
  /\ gen.status = "raised"
  /\ gen.error = "JSONDecodeError"
  /\ gen.api.content = << "p", "k", "}" >>

\* the completion service answered without content: no text, or the empty
\* text
NoContent(api) ==
  api.kind = "none" \/ (api.kind = "text" /\ api.content = << >>)

\* C14: every generation stage fails when the completion service answers
\* without content, and no stage returns the empty text or the empty record
\* as its result
C14_EmptyResponse ==
  StageEnded(JsonStages \cup TextStages)
    => /\ NoContent(gen.api) => gen.status = "raised"
       /\ gen.status = "returned" => gen.value \notin {<< >>, << "{", "}" >>}

\* C15: the outline that build_book hands to generate_chapters has exactly
\* as many stubs as the concept's chapter_count, numbered 1..chapter_count
\* in list order
C15_OutlineMatchesConcept ==
  (entry = "build_book" /\ \E k \in DOMAIN stages : stages[k] = "Chapters")
    => /\ Len(outline.chapters) = concept.chapter_count
       /\ \A i \in DOMAIN outline.chapters :
            outline.chapters[i].chapter_number = i

\* the stage method build_book entered last
FailingStage == stages[Len(stages)]

\* C16: the failure result build_book returns when a stage raised names the
\* stage that failed in one of its fields
C16_FailureNamesStage ==
  (entry = "build_book" /\ result.returned /\ ~result.success)
    => \E f \in {"error", "book_title", "genre"} : result[f] = FailingStage

\* C11: add_text_to_cover never raises, whatever the image path, the font and
\* the title are; it returns output_path only when the composed image was
\* saved there, and the cover_path it was given, unchanged, when a step
\* failed (the image cannot be opened, the title has no word, the save fails)
C11_ComposeNeverRaises ==
  (entry = "add_text_to_cover" /\ cov.called)
    => /\ ~cov.out.raised /\ ~escaped
       /\ cov.out.ret = final_cover_path => cov.out.saved
       /\ (cov.arg.image # "ok" \/ cov.arg.title \in {Null, "", "  "}
             \/ ~cov.arg.saveOk)
            => cov.out.ret = CoverPath(cov.arg) /\ ~cov.out.saved
       /\ (cov.arg.image = "ok" /\ cov.arg.title = "Title" /\ cov.arg.saveOk)
            => cov.out.ret = final_cover_path

\* the image at cover_path was not an image: the call returned cover_path
C11_Witness ==
  /\ entry = "add_text_to_cover"
  /\ cov.called
  /\ cov.arg.image = "corrupt"
  /\ cov.arg.font = "default"
  /\ cov.out.ret = raw_cover_path

\* C18: when the logger has no table (no API key, no base id, or an
\* initialisation that failed), each of its logging and query methods makes
\* no table call, does not raise, and returns its no-op value: None for
\* log_book_creation, [] for get_book_records, False for the others
C18_NoTableNoOp ==
  (entry = "airtable_logger" /\ airtable.config # "connected")
    => /\ ~airtable.table
       /\ airtable.calls = << >>
       /\ ~escaped
       /\ \A i \in DOMAIN airtable.log :
            /\ ~airtable.log[i].raised
            /\ airtable.log[i].ret = NoOp(airtable.log[i].method)

\* after a failed initialisation, log_book_creation and get_book_records
\* were called and returned None and []
C18_Witness ==
  /\ entry = "airtable_logger"
  /\ airtable.config = "init_error"
  /\ Len(airtable.log) = 2
  /\ airtable.log[1] =
       [method |-> "log_book_creation", ret |-> "None", raised |-> FALSE]
  /\ airtable.log[2] =
       [method |-> "get_book_records", ret |-> "[]", raised |-> FALSE]

\* the stages of build_book that have completed
CompletedStages ==
  IF result.returned /\ result.success THEN Len(stages)
  ELSE IF stages = << >> THEN 0 ELSE Len(stages) - 1

TableCalls(op) == { i \in DOMAIN airtable.calls : airtable.calls[i] = op }

\* C19: in a run of build_book with the tracking table configured, one row
\* is created once the concept stage has completed, and every later stage
\* that has completed is followed by an update of it
C19_OneRowPerRun ==
  (entry = "build_book" /\ airtable.table /\ CompletedStages >= 1
     /\ pc \in {"done", "format_raised"})
    => /\ Cardinality(TableCalls("create")) = 1
       /\ Cardinality(TableCalls("update")) >= CompletedStages - 1

\* the upload gave up: upload_book_files or the uploader's constructor raised
UploadFailed == entry = "upload_to_google_drive" /\ drive.raised # Null

\* the publishing session failed: a resource did not start, publish_book
\* returned a failure, or closing the session raised
PublishFailed ==
  /\ entry = "publish_to_streetlib"
  /\ pc = "done"
  /\ pub.started < Len(Resources) \/ pub.book = "failed" \/ pub.open # {}

\* C17: no failure of an optional adapter leaves it as an exception:
\* upload_to_google_drive returns None for every failure of the upload,
\* failed authentication and missing credentials included, and
\* publish_to_streetlib returns a result with success false for every
\* failure of the publishing session, a browser that does not start included
C17_AdaptersNeverRaise ==
  /\ entry \in {"upload_to_google_drive", "publish_to_streetlib"} => ~escaped
  /\ UploadFailed => pc = "done" /\ drive.ret = "None"
  /\ PublishFailed => pub.ret = "failure"

\* without a credentials file the uploader has no service: create_folder
\* failed and upload_to_google_drive returned None
C17_Witness ==
  /\ UploadFailed
  /\ drive.auth = "no_credentials"
  /\ drive.raised = "AttributeError"
  /\ drive.ret = "None"
  /\ ~escaped

FolderCalls == { i \in DOMAIN drive.calls : drive.calls[i].op = "folder" }
UploadCalls == { i \in DOMAIN drive.calls : drive.calls[i].op = "upload" }

\* the entries of book_files, and the cover, at whose path a file is
Existing ==
  { k \in {"epub", "pdf", "mobi"} : drive.paths[k] = "exists" }
    \cup (IF drive.cover = "exists" THEN {"cover"} ELSE {})

\* C20: upload_book_files creates one folder per call, before any upload;
\* it uploads the format files and the cover whose local path exists, each
\* once, and those make up the files map it returns; an entry whose file is
\* missing or whose path is the empty string is skipped, is absent from the
\* files map, and never makes the call raise
C20_UploadExistingFiles ==
  entry = "upload_to_google_drive"
    => /\ Cardinality(FolderCalls) <= 1
       /\ \A i \in UploadCalls : \E j \in FolderCalls : j < i
       /\ \A i, j \in UploadCalls :
            drive.calls[i].key = drive.calls[j].key => i = j
       /\ { drive.calls[i].key : i \in UploadCalls } = drive.files
       /\ drive.files \subseteq Existing
       /\ drive.raised # "FileNotFoundError"
       /\ drive.ret = "upload_info"
            => Cardinality(FolderCalls) = 1 /\ drive.files = Existing

\* the call returned with the EPUB uploaded, the PDF (empty path) and the
\* MOBI (no file at its path) skipped, and no cover
C20_Witness ==
  /\ entry = "upload_to_google_drive"
  /\ drive.ret = "upload_info"
  /\ drive.paths = [epub |-> "exists", pdf |-> "", mobi |-> "missing"]
  /\ drive.cover = Null
  /\ drive.files = {"epub"}

\* C23: format_book_files, given the concept, outline, chapters, blurb and
\* cover path of a finished run, does not raise: it completes the assembly
\* and returns the map of produced files
C23_FormatBookFilesReturns ==
  (entry = "build_book" /\ book_data # NoBookData)
    => ~escaped /\ pc # "format_raised"

\* the Book Record names no cover that can be read
NoCoverToRead ==
  env.cover \in {"nokey", "none", "empty", "missing", "unreadable"}

\* C24: for a Book Record without a cover (no cover path, an empty one, or
\* one naming a file that cannot be read) create_epub still writes the EPUB
\* file when the book itself can be built
C24_EpubWithoutCover ==
  (entry = "create_all_formats" /\ pc \in {"pdf", "mobi", "done"}
     /\ NoCoverToRead /\ env.epubBuildOk)
    => epub_path \in files

\* C25: once the concept stage has returned the concept, no later step of
\* build_book changes any of its fields, whatever overrides were given
C25_ConceptImmutable ==
  [][(entry = "build_book" /\ concept # NoConcept) => concept' = concept]_vars

\* C29: when publish_to_streetlib has returned, normally or after an
\* exception at any point of starting or running the session, none of the
\* resources opened for it (page, browser, engine) is still open
C29_ResourcesClosed ==
  (entry = "publish_to_streetlib" /\ pc = "done") => pub.open = {}

\* the loop over the submit-button selectors has run
LoopRan == entry = "submit_for_publishing" /\ pc # "start"

Range(q) == { q[i] : i \in DOMAIN q }

\* C22 as stated: the action is applied to the first selector that matches
\* and no selector after it is probed or acted upon, so at most one selector
\* receives the action
C22_FirstMatchOnly ==
  LoopRan
    => /\ Len(sub.loop.acted) <= 1
       /\ \A i \in DOMAIN sub.loop.probed :
            sub.page.buttons[sub.loop.probed[i]] # "absent"
              => i = Len(sub.loop.probed)

\* C22, amended: the selectors are probed in list order; the action is
\* applied to every probed selector that matches, and the first action that
\* goes through ends the loop: no selector after it is probed or acted upon,
\* so at most one selector takes the action; a selector on which the action
\* raised is followed by the next one
C22_FirstSuccessfulMatch ==
  LoopRan
    => /\ \A i \in DOMAIN sub.loop.probed : sub.loop.probed[i] = i
       /\ Range(sub.loop.acted) =
            { k \in Range(sub.loop.probed) : sub.page.buttons[k] # "absent" }
       /\ \A i \in DOMAIN sub.loop.probed :
            sub.page.buttons[i] = "present" => i = Len(sub.loop.probed)
       /\ sub.loop.done
            <=> /\ sub.loop.probed # << >>
                /\ sub.page.buttons[Len(sub.loop.probed)] = "present"
       /\ ~sub.loop.done => Len(sub.loop.probed) = MaxSelectors

\* the first selector matched nothing, the click on the second raised, the
\* third took the click
C22_Witness ==
  /\ LoopRan
  /\ sub.page.buttons[1] = "absent"
  /\ sub.page.buttons[2] = "broken"
  /\ sub.page.buttons[3] = "present"
  /\ sub.loop = [probed |-> << 1, 2, 3 >>, acted |-> << 2, 3 >>, done |-> TRUE]

\* some error indicator is on the page, readable or not
ErrorFound(page) == \E k \in DOMAIN page.errors : page.errors[k] # "absent"

\* C21: submit_for_publishing returns success when a success indicator is on
\* the page, failure with the error text when none is and an error indicator
\* is on the page, and the unclear success when neither is
C21_SubmitOutcome ==
  (entry = "submit_for_publishing" /\ sub.out.returned)
    => /\ SuccessFound(sub.page)
            => /\ sub.out.success
               /\ sub.out.message = "Book published successfully"
       /\ (~SuccessFound(sub.page) /\ ErrorFound(sub.page))
            => ~sub.out.success /\ sub.out.error = "error text"
       /\ (~SuccessFound(sub.page) /\ ~ErrorFound(sub.page))
            => /\ sub.out.success
               /\ sub.out.message = "Book submitted (status unclear)"

\* C27: submit_for_publishing reports success only if one of the
\* submit-button selectors matched and was clicked in that call
C27_SuccessNeedsClick ==
  (entry = "submit_for_publishing" /\ sub.out.returned /\ sub.out.success)
    => sub.out.clicked /\ sub.loop.done

\* publish_book has run at least one step
StepsRun == entry = "publish_to_streetlib" /\ pub.steps # << >>

\* C26: publish_book runs login, navigation, basic metadata,
\* description/keywords, categories, cover upload, book-file upload, pricing
\* and the submission in that order, each only after all the earlier ones
\* returned success; the first step that fails ends the run with the
\* failure result of that step, and no later step is run
C26_StepsInOrder ==
  StepsRun
    => /\ Len(pub.steps) <= Len(Steps)
       /\ \A i \in DOMAIN pub.steps : pub.steps[i].name = Steps[i]
       /\ \A i \in 1..(Len(pub.steps) - 1) : pub.steps[i].ok
       /\ ~pub.steps[Len(pub.steps)].ok
            => /\ pub.book = "failed"
               /\ pc \in {"exit", "done"}
               /\ pub.book_error
                    = FailureMessage(pub.steps[Len(pub.steps)].name)
       /\ pc = "done" => pub.book # "pending"
       /\ (pc = "done" /\ pub.book = "failed") => pub.ret = "failure"

\* the cover upload failed after five steps that went through: the run ended
\* there, without the book-file upload, the pricing or the submission
C26_Witness ==
  /\ StepsRun
  /\ pc = "done"
  /\ Len(pub.steps) = 6
  /\ pub.steps[6] = [name |-> "cover", ok |-> FALSE]
  /\ pub.book_error = "Failed to upload cover"
  /\ pub.ret = "failure"

C28_ReturnedCoverWritten ==
  (entry = "generate_cover_image" /\ cov.ret # Null)
    => /\ cov.ret \in cov.written
       /\ cov.out.saved => cov.ret = final_cover_path
       /\ ~cov.out.saved => cov.ret = raw_cover_path

====
